---- MODULE Spec2Model ----
(***************************************************************************)
(* Spreadsheet-structure inference of the Avencion data center             *)
(* (src/app-simple.py): workbook loading, header-row detection, column     *)
(* name inference, cleaning, view and search.                              *)
(*                                                                         *)
(* A cell is a text value (a string) or NA, the missing value (Python      *)
(* None / pandas NaN).  A sheet is the sequence of its rows 1..max_row,    *)
(* every row a sequence of max_column cells.  A DataFrame is a record      *)
(* [cols, rows]: the column labels and the rows by position.  The labels   *)
(* pandas gives a frame built from a list of tuples are the integers       *)
(* 0, 1, 2, ...; a label is kept here as its str() form.                   *)
(***************************************************************************)
EXTENDS Integers, Sequences, FiniteSets, TLC

\* file: the workbook at the spreadsheet's file_path; record: the Spreadsheet
\* row of the database; resp: the response to the request being served;
\* io: the operations on the file made while serving that request.
\* login_attempts: the failed login times recorded per client address;
\* session: the client's signed session cookie; now: datetime.utcnow().
VARIABLES file, record, resp, io, login_attempts, session, now

vars == <<file, record, resp, io, login_attempts, session, now>>

(***************************************************************************)
(* Bounds of the explored inputs.                                          *)
(***************************************************************************)
MaxRows == 3
MaxCols == 6
MaxInferCols == 4
MaxGridRows == 3
MaxGridCols == 3

MaxTicks == 2

(***************************************************************************)
(* Program constants.                                                      *)
(***************************************************************************)
HEAD_WINDOW == 10
ANALYZE_SCAN_ROWS == 100
ANALYZE_READ_ROWS == 1000
SEARCH_SCAN_ROWS == 50
SAMPLE_SIZE == 5
SEARCH_CAP == 100
SAMPLE_ROWS == 10
VIEW_ROWS == 50
VIEW_COLS == 20
LABEL_CHARS == 30
CELL_CHARS == 50

NA == "<NA>"

None == -1

(***************************************************************************)
(* Python text operations.                                                 *)
(***************************************************************************)
Min(a, b) == IF a <= b THEN a ELSE b

SetMin(S) == CHOOSE x \in S : \A y \in S : x <= y

SetMax(S) == CHOOSE x \in S : \A y \in S : y <= x

Range(s) == {s[i] : i \in 1..Len(s)}

Char(s, i) == SubSeq(s, i, i)

UPPER == "ABCDEFGHIJKLMNOPQRSTUVWXYZ"

LOWER == "abcdefghijklmnopqrstuvwxyz"

DIGITS == "0123456789"

\* The lower-case letter of each upper-case letter.
LowerOf ==
    [c \in {Char(UPPER, k) : k \in 1..Len(UPPER)} |->
        Char(LOWER, CHOOSE k \in 1..Len(UPPER) : Char(UPPER, k) = c)]

LowerChar(c) == IF c \in DOMAIN LowerOf THEN LowerOf[c] ELSE c

RECURSIVE Lower(_)
Lower(s) ==
    IF Len(s) = 0 THEN ""
    ELSE IF Len(s) = 1 THEN LowerChar(s)
    ELSE Lower(SubSeq(s, 1, Len(s) \div 2)) \o Lower(SubSeq(s, Len(s) \div 2 + 1, Len(s)))

IsSpace(c) == c \in {" ", "\t", "\n", "\r"}

RECURSIVE LStrip(_)
LStrip(s) ==
    IF Len(s) > 0 /\ IsSpace(Char(s, 1)) THEN LStrip(SubSeq(s, 2, Len(s))) ELSE s

RECURSIVE RStrip(_)
RStrip(s) ==
    IF Len(s) > 0 /\ IsSpace(Char(s, Len(s))) THEN RStrip(SubSeq(s, 1, Len(s) - 1)) ELSE s

Strip(s) == RStrip(LStrip(s))

RECURSIVE Join(_)
Join(xs) ==
    IF Len(xs) = 0 THEN ""
    ELSE IF Len(xs) = 1 THEN xs[1]
    ELSE Join(SubSeq(xs, 1, Len(xs) \div 2)) \o " "
            \o Join(SubSeq(xs, Len(xs) \div 2 + 1, Len(xs)))

Contains(text, kw) ==
    \E i \in 1..(Len(text) - Len(kw) + 1) : SubSeq(text, i, i + Len(kw) - 1) = kw

AnyKeyword(kws, text) == \E kw \in kws : Contains(text, kw)

DigitChars == {Char(DIGITS, d) : d \in 1..Len(DIGITS)}

IsDigit(s) ==
    /\ Len(s) > 0
    /\ \A i \in 1..Len(s) : Char(s, i) \in DigitChars

RECURSIVE RemoveChar(_, _)
RemoveChar(s, c) ==
    IF Len(s) = 0 THEN ""
    ELSE IF Len(s) = 1 THEN (IF s = c THEN "" ELSE s)
    ELSE RemoveChar(SubSeq(s, 1, Len(s) \div 2), c)
            \o RemoveChar(SubSeq(s, Len(s) \div 2 + 1, Len(s)), c)

RECURSIVE IntStr(_)
IntStr(n) ==
    IF n < 10 THEN Char(DIGITS, n + 1)
    ELSE IntStr(n \div 10) \o Char(DIGITS, (n % 10) + 1)

(***************************************************************************)
(* pandas operations on a DataFrame.                                       *)
(***************************************************************************)
notna(c) == c # NA

DataFrame(data_rows) ==
    [cols |-> IF Len(data_rows) = 0 THEN <<>>
              ELSE [j \in 1..Len(data_rows[1]) |-> IntStr(j - 1)],
     rows |-> data_rows]

NRows(df) == Len(df.rows)

NCols(df) == Len(df.cols)

\* The elements of s at the positions of K from i on, in order.
SelectIdx(s, K, i) ==
    LET indexed == [k \in 1..Len(s) |-> [at |-> k, item |-> s[k]]]
        Kept(e) == e.at \in K /\ e.at >= i
        kept == SelectSeq(indexed, Kept)
    IN  [r \in 1..Len(kept) |-> kept[r].item]

KeepRows(df, I) == [df EXCEPT !.rows = SelectIdx(df.rows, I, 1)]

KeepCols(df, J) ==
    [cols |-> SelectIdx(df.cols, J, 1),
     rows |-> [i \in 1..NRows(df) |-> SelectIdx(df.rows[i], J, 1)]]

RowCount(df, i) == Cardinality({j \in 1..NCols(df) : notna(df.rows[i][j])})

ColCount(df, j) == Cardinality({i \in 1..NRows(df) : notna(df.rows[i][j])})

ffill_axis1(df) ==
    [df EXCEPT !.rows =
        [i \in 1..NRows(df) |->
            [j \in 1..NCols(df) |->
                LET L == {k \in 1..j : notna(df.rows[i][k])}
                IN  IF L = {} THEN NA ELSE df.rows[i][SetMax(L)]]]]

ffill_axis0(df) ==
    [df EXCEPT !.rows =
        [i \in 1..NRows(df) |->
            [j \in 1..NCols(df) |->
                LET U == {k \in 1..i : notna(df.rows[k][j])}
                IN  IF U = {} THEN NA ELSE df.rows[SetMax(U)][j]]]]

\* df.ffill(axis=1) then df.ffill(axis=0): "Handle merged cells by forward
\* filling", horizontally and then vertically.
ffill_merged_cells_VerticalFirst(df) == ffill_axis1(ffill_axis0(df))

ffill_merged_cells(df) == ffill_axis0(ffill_axis1(df))

dropna_rows_all(df) == KeepRows(df, {i \in 1..NRows(df) : RowCount(df, i) >= 1})

dropna_cols_all(df) == KeepCols(df, {j \in 1..NCols(df) : ColCount(df, j) >= 1})

dropna_rows_thresh(df, num, den) ==
    KeepRows(df, {i \in 1..NRows(df) : RowCount(df, i) * den >= NCols(df) * num})

dropna_cols_thresh(df, num, den) ==
    KeepCols(df, {j \in 1..NCols(df) : ColCount(df, j) * den >= NRows(df) * num})

iloc_from(df, i) == [df EXCEPT !.rows = SubSeq(df.rows, i + 1, NRows(df))]

head(s, n) == SubSeq(s, 1, Min(n, Len(s)))

(***************************************************************************)
(* openpyxl: the rows min_row..max_row of a sheet, and the filter every    *)
(* reader applies to them.                                                 *)
(***************************************************************************)
iter_rows(ws, min_row, max_row) == SubSeq(ws, min_row, max_row)

HasContent(row) == \E j \in 1..Len(row) : row[j] # NA /\ Strip(row[j]) # ""

ReadRows(ws, min_row, max_row) ==
    SelectSeq(iter_rows(ws, min_row, max_row), HasContent)

(***************************************************************************)
(* Header-row detection of analyze_excel_file and view_spreadsheet.        *)
(***************************************************************************)
HEADER_KEYWORDS ==
    {"s/n", "serial", "description", "quantity", "date", "price", "cost",
     "name", "id", "code", "number", "amount", "total", "item", "product",
     "customer", "client", "address", "phone", "email", "annexure", "table",
     "list", "inventory", "asset", "criteria", "assessment", "score", "yes",
     "no", "points"}

NotNull(row) == SelectSeq(row, notna)

RowValues(row) == [k \in 1..Len(NotNull(row)) |-> Strip(NotNull(row)[k])]

KeywordRule(row) ==
    LET row_values == RowValues(row)
    IN  /\ Len(row_values) > 2
        /\ AnyKeyword(HEADER_KEYWORDS, Lower(Join(row_values)))
        /\ Cardinality(Range(row_values)) > 2

VarietyRule_AnyThree(row) == Len(NotNull(row)) >= 3

VarietyRule(row) ==
    LET non_null_count == Len(NotNull(row))
        unique_values == Range(RowValues(row))
    IN  /\ non_null_count >= 3
        /\ Cardinality(unique_values) > 2
        /\ Cardinality(unique_values) * 2 >= non_null_count

NonEmptyRule(row) == Len(NotNull(row)) > 0

FirstRow(rows, P(_)) ==
    LET S == {i \in 1..Len(rows) : P(rows[i])}
    IN  IF S = {} THEN None ELSE SetMin(S) - 1

DetectHeader_VarietyFirst(df_raw) ==
    LET by_keyword == FirstRow(head(df_raw.rows, HEAD_WINDOW), KeywordRule)
        by_variety == FirstRow(head(df_raw.rows, HEAD_WINDOW), VarietyRule)
        by_content == FirstRow(df_raw.rows, NonEmptyRule)
    IN  IF by_variety # None THEN by_variety
        ELSE IF by_keyword # None THEN by_keyword
        ELSE IF by_content # None THEN by_content
        ELSE 0

DetectHeader_FirstNonEmpty(df_raw) ==
    LET by_content == FirstRow(df_raw.rows, NonEmptyRule)
    IN  IF by_content # None THEN by_content ELSE 0

DetectHeader(df_raw) ==
    LET by_keyword == FirstRow(head(df_raw.rows, HEAD_WINDOW), KeywordRule)
        by_variety == FirstRow(head(df_raw.rows, HEAD_WINDOW), VarietyRule)
        by_content == FirstRow(df_raw.rows, NonEmptyRule)
    IN  IF by_keyword # None THEN by_keyword
        ELSE IF by_variety # None THEN by_variety
        ELSE IF by_content # None THEN by_content
        ELSE 0

(***************************************************************************)
(* Header-row detection of search_spreadsheet.                             *)
(***************************************************************************)
SEARCH_HEADER_KEYWORDS ==
    {"s/n", "serial", "description", "quantity", "date", "price", "cost"}

SearchKeywordRule(row) ==
    /\ Len(RowValues(row)) > 3
    /\ AnyKeyword(SEARCH_HEADER_KEYWORDS, Lower(Join(RowValues(row))))

SearchCountRule(row) == Len(NotNull(row)) >= 3

SearchDetectHeader(df_raw) ==
    LET by_keyword == FirstRow(df_raw.rows, SearchKeywordRule)
        by_count == FirstRow(df_raw.rows, SearchCountRule)
    IN  IF by_keyword # None THEN by_keyword
        ELSE IF by_count # None THEN by_count
        ELSE 0

(***************************************************************************)
(* Re-anchoring on the first row of the frame read from the header row.    *)
(***************************************************************************)
QUESTION_PHRASES ==
    {"does the", "is the", "has the", "how many", "what is", "when", "where", "who"}

BetterHeader(row) ==
    LET unique_values == Range(RowValues(row))
    IN  /\ Cardinality(unique_values) > 3
        /\ Cardinality(unique_values) * 10 >= Len(RowValues(row)) * 3

QuestionRow(row) == AnyKeyword(QUESTION_PHRASES, Lower(Join(RowValues(row))))

FirstFrom1(df, limit, P(_)) ==
    LET S == {i \in 1..(Min(limit, NRows(df)) - 1) : P(df.rows[i + 1])}
    IN  IF S = {} THEN None ELSE SetMin(S)

Reanchor(df) ==
    IF NRows(df) = 0 THEN df
    ELSE LET first_row_values == RowValues(df.rows[1])
             first_row_text == Lower(Join(first_row_values))
             better == FirstFrom1(df, 5, BetterHeader)
             df1 == IF /\ Cardinality(Range(first_row_values)) <= 3
                       /\ Len(first_row_values) > 5
                       /\ better # None
                    THEN iloc_from(df, better) ELSE df
             question == FirstFrom1(df1, 10, QuestionRow)
         IN  IF Len(first_row_values) <= 3 THEN df
             ELSE IF /\ \/ Contains(first_row_text, "assessment criteria")
                        \/ Contains(first_row_text, "annexure")
                     /\ question # None
                  THEN iloc_from(df1, question) ELSE df1

(***************************************************************************)
(* infer_column_names.                                                     *)
(***************************************************************************)
ASSESSMENT_FLAGS ==
    {"assessment criteria", "annexure", "score", "yes", "no", "points"}

CATEGORIES ==
    << [label |-> "Device_Type", kws |-> {"laptop", "computer", "device", "pc", "desktop"}],
       [label |-> "Manufacturer", kws |-> {"hp", "dell", "lenovo", "apple", "asus", "acer", "toshiba", "samsung"}],
       [label |-> "Serial_Number", kws |-> {"serial", "sn", "tag", "asset", "inventory"}],
       [label |-> "Price", kws |-> {"price", "cost", "amount", "value", "total"}],
       [label |-> "Date", kws |-> {"date", "purchase", "delivery", "received", "issued"}],
       [label |-> "Quantity", kws |-> {"quantity", "qty", "count", "number"}],
       [label |-> "Location", kws |-> {"location", "place", "office", "department", "building"}],
       [label |-> "Condition", kws |-> {"condition", "status", "state", "working", "broken"}],
       [label |-> "Description", kws |-> {"description", "details", "notes", "remarks"}],
       [label |-> "Name", kws |-> {"name", "title", "item", "product"}],
       [label |-> "ID", kws |-> {"id", "code", "reference", "ref"}],
       [label |-> "Assessment_Criteria", kws |-> {"criteria", "assessment", "evaluation", "requirement"}],
       [label |-> "Score", kws |-> {"score", "points", "rating", "grade"}],
       [label |-> "Response", kws |-> {"yes", "no", "y/n", "true", "false"}],
       [label |-> "Document_Section", kws |-> {"annexure", "annex", "appendix"}],
       [label |-> "Business_Info", kws |-> {"sme", "business", "enterprise", "company"}],
       [label |-> "Email", kws |-> {"email", "e-mail", "mail"}],
       [label |-> "Phone", kws |-> {"phone", "mobile", "contact"}],
       [label |-> "Address", kws |-> {"address", "street", "city", "zip"}],
       [label |-> "Customer", kws |-> {"customer", "client", "user", "person"}],
       [label |-> "Employee", kws |-> {"employee", "staff", "worker"}],
       [label |-> "Category", kws |-> {"category", "type", "group"}],
       [label |-> "Model", kws |-> {"model", "version", "brand"}] >>

BOOLEAN_LIKE == {"yes", "no", "y", "n", "1", "0"}

is_assessment(df) ==
    /\ NRows(df) > 0
    /\ AnyKeyword(ASSESSMENT_FLAGS, Lower(Join(NotNull(df.rows[1]))))

IsDegenerate(col) ==
    \/ col = NA
    \/ IsDigit(Strip(col))
    \/ Contains(Lower(Strip(col)), "unnamed")
    \/ Strip(col) = ""
    \/ Strip(col) = "nan"

ColumnValues(df, j) == [i \in 1..NRows(df) |-> df.rows[i][j]]

FirstValues(df, j) == head(NotNull(ColumnValues(df, j)), SAMPLE_SIZE)

FirstCategory_Last(sample_text, c) ==
    LET M == {k \in c..Len(CATEGORIES) : AnyKeyword(CATEGORIES[k].kws, sample_text)}
    IN  IF M = {} THEN None ELSE SetMax(M)

RECURSIVE FirstCategory(_, _)
FirstCategory(sample_text, c) ==
    IF c > Len(CATEGORIES) THEN None
    ELSE IF AnyKeyword(CATEGORIES[c].kws, sample_text) THEN c
    ELSE FirstCategory(sample_text, c + 1)

LooksNumeric(val) == IsDigit(RemoveChar(RemoveChar(val, "."), "-"))

PositionalName(first_values, n) ==
    IF n = 0 THEN "Assessment_Criteria"
    ELSE IF n = 1 THEN "Description"
    ELSE IF n = 2 THEN "Score_Yes_No"
    ELSE IF \E k \in 1..Len(first_values) : Lower(first_values[k]) \in BOOLEAN_LIKE
         THEN "Response_" \o IntStr(n - 2)
         ELSE "Additional_Info_" \o IntStr(n - 2)

NumericName(first_values, n) ==
    LET numeric_count == Cardinality({k \in 1..Len(first_values) : LooksNumeric(first_values[k])})
    IN  IF numeric_count * 10 >= Len(first_values) * 7
        THEN "Numeric_Column_" \o IntStr(n + 1)
        ELSE "Column_" \o IntStr(n + 1)

ColumnName(df, j, assessment) ==
    LET col == df.cols[j]
        n == j - 1
        first_values == FirstValues(df, j)
        category == FirstCategory(Lower(Join(first_values)), 1)
    IN  IF ~IsDegenerate(col) THEN Strip(col)
        ELSE IF Len(first_values) = 0 THEN "Column_" \o IntStr(n + 1)
        ELSE IF category # None THEN CATEGORIES[category].label
        ELSE IF assessment THEN PositionalName(first_values, n)
        ELSE NumericName(first_values, n)

infer_column_names(df) ==
    [j \in 1..NCols(df) |-> ColumnName(df, j, is_assessment(df))]

(***************************************************************************)
(* clean_dataframe.                                                        *)
(***************************************************************************)
NULL_TOKENS == {"nan", "NaN", "None", "NULL", "null", "N/A", "n/a"}

replace_fillna(df) ==
    [df EXCEPT !.rows =
        [i \in 1..NRows(df) |->
            [j \in 1..NCols(df) |->
                IF df.rows[i][j] \in NULL_TOKENS \/ df.rows[i][j] = NA
                THEN "" ELSE df.rows[i][j]]]]

clean_dataframe(df) == dropna_cols_all(dropna_rows_all(replace_fillna(df)))

(***************************************************************************)
(* The cleaning steps of analyze_excel_file and view_spreadsheet.          *)
(***************************************************************************)
StrictPrune_ColumnsFirst(df) ==
    dropna_rows_thresh(
        dropna_cols_thresh(
            dropna_cols_all(dropna_rows_all(ffill_merged_cells(df))),
            1, 10),
        2, 10)

StrictPrune(df) ==
    dropna_cols_thresh(
        dropna_rows_thresh(
            dropna_cols_all(dropna_rows_all(ffill_merged_cells(df))),
            2, 10),
        1, 10)

RelaxedPrune(data_rows) ==
    dropna_cols_thresh(dropna_rows_thresh(DataFrame(data_rows), 1, 10), 5, 100)

Prune_Relaxed(df, data_rows) == RelaxedPrune(data_rows)

Prune(df, data_rows) ==
    IF NRows(StrictPrune(df)) = 0 THEN RelaxedPrune(data_rows) ELSE StrictPrune(df)

Rename(df) == [df EXCEPT !.cols = infer_column_names(df)]

to_dict(cols, row) ==
    [name \in Range(cols) |-> row[SetMax({j \in 1..Len(cols) : cols[j] = name})]]

records(df) == [i \in 1..NRows(df) |-> to_dict(df.cols, df.rows[i])]

(***************************************************************************)
(* The workbook file and its sheets.                                       *)
(***************************************************************************)
sheetnames(wb) == [k \in 1..Len(wb.sheets) |-> wb.sheets[k].name]

Worksheet(wb, name) ==
    wb.sheets[CHOOSE k \in 1..Len(wb.sheets) : wb.sheets[k].name = name].ws

\* openpyxl.load_workbook succeeds on a readable workbook and raises on a
\* corrupted one.
load_workbook_Raises(wb) == FALSE

load_workbook(wb) == wb.state = "ok"

SelectSheet_Last(wb, sheet_name) ==
    IF sheet_name = "" \/ sheet_name \notin Range(sheetnames(wb))
    THEN sheetnames(wb)[Len(sheetnames(wb))] ELSE sheet_name

SelectSheet(wb, sheet_name) ==
    IF sheet_name = "" \/ sheet_name \notin Range(sheetnames(wb))
    THEN sheetnames(wb)[1] ELSE sheet_name

(***************************************************************************)
(* analyze_excel_file: the frame it builds and the descriptor it returns.  *)
(***************************************************************************)
AnalyzeHeader(ws) ==
    DetectHeader(ffill_merged_cells(
        DataFrame(ReadRows(ws, 1, Min(ANALYZE_SCAN_ROWS, Len(ws))))))

AnalyzeFrame(ws) ==
    LET header_row == AnalyzeHeader(ws)
        data_rows == ReadRows(ws, header_row + 1,
                              Min(header_row + ANALYZE_READ_ROWS, Len(ws)))
    IN  clean_dataframe(Rename(Prune(Reanchor(DataFrame(data_rows)), data_rows)))

ErrorDescriptor ==
    [columns |-> <<"Error reading file">>,
     dtypes |-> <<>>,
     sample_data |-> <<>>,
     total_rows |-> 0,
     sheets |-> <<>>]

analyze_excel_file(wb) ==
    IF ~load_workbook(wb)
    THEN [columns_info |-> ErrorDescriptor, row_count |-> 0, table |-> DataFrame(<<>>)]
    ELSE
    LET ws == Worksheet(wb, sheetnames(wb)[1])
        df == AnalyzeFrame(ws)
    IN  [columns_info |->
            [columns |-> df.cols,
             dtypes |-> [name \in Range(df.cols) |-> "object"],
             sample_data |-> head(records(df), SAMPLE_ROWS),
             total_rows |-> NRows(df),
             sheets |-> sheetnames(wb),
             header_row |-> AnalyzeHeader(ws)],
         row_count |-> NRows(df),
         table |-> df]

\* analyze_excel_file opens the workbook with load_workbook, twice, and
\* never saves it: the file after the analysis is the file before it.
analyzed_file_Trimmed(wb) ==
    IF load_workbook(wb)
    THEN [wb EXCEPT !.sheets[1].ws = ReadRows(wb.sheets[1].ws, AnalyzeHeader(wb.sheets[1].ws) + 2,
                                               Len(wb.sheets[1].ws))]
    ELSE wb

analyzed_file(wb) == wb

(***************************************************************************)
(* view_spreadsheet: the frame it builds and what it renders.              *)
(***************************************************************************)
ViewHeader(ws) == DetectHeader(DataFrame(ReadRows(ws, 1, Len(ws))))

ViewFrame(ws) ==
    LET data_rows == ReadRows(ws, ViewHeader(ws) + 1, Len(ws))
    IN  clean_dataframe(Rename(Reanchor(Prune(DataFrame(data_rows), data_rows))))

Truncate(text, n) == IF Len(text) > n THEN SubSeq(text, 1, n) \o "..." ELSE text

head_rows(df, n) == KeepRows(df, 1..n)

display_df(df) ==
    IF NCols(head_rows(df, VIEW_ROWS)) > VIEW_COLS
    THEN KeepCols(head_rows(df, VIEW_ROWS), 1..VIEW_COLS)
    ELSE head_rows(df, VIEW_ROWS)

Render(df) ==
    [header |-> [j \in 1..NCols(display_df(df)) |->
                    Truncate(display_df(df).cols[j], LABEL_CHARS)],
     body |-> [i \in 1..NRows(display_df(df)) |->
                [j \in 1..NCols(display_df(df)) |->
                    IF display_df(df).rows[i][j] = "nan" THEN ""
                    ELSE Truncate(display_df(df).rows[i][j], CELL_CHARS)]]]

ViewError == [op |-> "view", status |-> "error"]

ViewCounts_OfDisplay(df) ==
    IF NRows(df) = 0
    THEN [total_rows |-> 0, displayed_rows |-> 0, columns_truncated |-> FALSE,
          total_columns |-> 0, displayed_columns |-> 0]
    ELSE [total_rows |-> NRows(display_df(df)),
          displayed_rows |-> Min(VIEW_ROWS, NRows(df)),
          columns_truncated |-> NCols(head_rows(df, VIEW_ROWS)) > VIEW_COLS,
          total_columns |-> NCols(display_df(df)),
          displayed_columns |-> NCols(display_df(df))]

ViewCounts(df) ==
    IF NRows(df) = 0
    THEN [total_rows |-> 0, displayed_rows |-> 0, columns_truncated |-> FALSE,
          total_columns |-> 0, displayed_columns |-> 0]
    ELSE [total_rows |-> NRows(df),
          displayed_rows |-> Min(VIEW_ROWS, NRows(df)),
          columns_truncated |-> NCols(head_rows(df, VIEW_ROWS)) > VIEW_COLS,
          total_columns |-> NCols(df),
          displayed_columns |-> NCols(display_df(df))]

ViewResponse(wb, sheet_name) ==
    LET current_sheet == SelectSheet(wb, sheet_name)
        ws == Worksheet(wb, current_sheet)
        df == ViewFrame(ws)
        counts == ViewCounts(df)
    IN  [op |-> "view",
         sheet_arg |-> sheet_name,
         status |-> IF NRows(df) = 0 THEN "no data" ELSE "ok",
         header_row |-> ViewHeader(ws),
         table |-> df,
         table_html |-> IF NRows(df) = 0 THEN [header |-> <<>>, body |-> <<>>] ELSE Render(df),
         available_sheets |-> sheetnames(wb),
         current_sheet |-> current_sheet,
         total_rows |-> counts.total_rows,
         displayed_rows |-> counts.displayed_rows,
         columns_truncated |-> counts.columns_truncated,
         total_columns |-> counts.total_columns,
         displayed_columns |-> counts.displayed_columns]

(***************************************************************************)
(* search_spreadsheet: the frame it builds, the match and the response.    *)
(***************************************************************************)
SearchHeader(ws) ==
    SearchDetectHeader(ffill_merged_cells(
        DataFrame(ReadRows(ws, 1, Min(SEARCH_SCAN_ROWS, Len(ws))))))

SearchFrame(ws) ==
    [header_row |-> SearchHeader(ws),
     df |-> clean_dataframe(Rename(ffill_merged_cells(
                DataFrame(ReadRows(ws, SearchHeader(ws) + 1, Len(ws))))))]

\* re.search(pattern, text, re.IGNORECASE) for a pattern of literal
\* characters and '.', which matches any character but a newline.
PatternAt(pattern, text, i) ==
    \A k \in 1..Len(pattern) :
        \/ Char(pattern, k) = "." /\ Char(text, i + k - 1) # "\n"
        \/ LowerChar(Char(pattern, k)) = LowerChar(Char(text, i + k - 1))

str_contains(text, pattern) ==
    \E i \in 1..(Len(text) - Len(pattern) + 1) : PatternAt(pattern, text, i)

Positions(cols, name) == {j \in 1..Len(cols) : cols[j] = name}

Mask(df, query, column) ==
    IF column # "" /\ column \in Range(df.cols)
    THEN {i \in 1..NRows(df) :
            str_contains(df.rows[i][CHOOSE j \in Positions(df.cols, column) : TRUE], query)}
    ELSE {i \in 1..NRows(df) :
            \E j \in 1..NCols(df) : str_contains(df.rows[i][j], query)}

\* The responses of search_spreadsheet that carry no table; query, column
\* and sheet_arg are the parameters of the request served.
EmptyResult(query, column, sheet_arg) ==
    [op |-> "search", status |-> "empty",
     query |-> query, column |-> column, sheet_arg |-> sheet_arg,
     data |-> <<>>, total |-> 0]

SearchError(query, column, sheet_arg) ==
    [op |-> "search", status |-> "error", code |-> 500,
     query |-> query, column |-> column, sheet_arg |-> sheet_arg]

SearchResponse_CappedTotal(frame, query, column, sheet_arg, sheet) ==
    LET df == frame.df IN
    IF query = "" THEN EmptyResult(query, column, sheet_arg)
    ELSE IF column # "" /\ Cardinality(Positions(df.cols, column)) > 1
    THEN SearchError(query, column, sheet_arg)
    ELSE [op |-> "search", status |-> "ok",
          table |-> df,
          header_row |-> frame.header_row,
          mask |-> Mask(df, query, column),
          data |-> head(records(KeepRows(df, Mask(df, query, column))), SEARCH_CAP),
          total |-> Len(head(records(KeepRows(df, Mask(df, query, column))), SEARCH_CAP)),
          query |-> query, column |-> column, sheet_arg |-> sheet_arg, sheet |-> sheet]

SearchResponse(frame, query, column, sheet_arg, sheet) ==
    LET df == frame.df IN
    IF query = "" THEN EmptyResult(query, column, sheet_arg)
    ELSE IF column # "" /\ Cardinality(Positions(df.cols, column)) > 1
    THEN SearchError(query, column, sheet_arg)
    ELSE [op |-> "search", status |-> "ok",
          table |-> df,
          header_row |-> frame.header_row,
          mask |-> Mask(df, query, column),
          data |-> head(records(KeepRows(df, Mask(df, query, column))), SEARCH_CAP),
          total |-> NRows(KeepRows(df, Mask(df, query, column))),
          query |-> query, column |-> column, sheet_arg |-> sheet_arg, sheet |-> sheet]

(***************************************************************************)
(* The workbooks explored: sheets of MaxCols columns and up to MaxRows     *)
(* rows drawn from a pool of rows, and tall sheets around the search cap.  *)
(***************************************************************************)
FitRow(cells) ==
    [j \in 1..MaxCols |-> IF j <= Len(cells) THEN cells[j] ELSE NA]

RowPool ==
    {FitRow(<<"Form", "Form", "Form", "Form", "Form", "Form">>),
     FitRow(<<"S/N", "Description", "Qty", "Price">>),
     FitRow(<<"1", "Laptop", "2", "500">>),
     FitRow(<<NA, "HP Printer", "N/A", " ">>),
     FitRow(<<>>)}

SmallSheets == UNION {[1..n -> RowPool] : n \in 1..MaxRows}

TallSheet(n) ==
    [i \in 1..n |->
        IF i = 1 THEN FitRow(<<"S/N", "Description", "Qty", "Price">>)
        ELSE IF i % 2 = 0 THEN FitRow(<<"1", "Laptop", "2", "500">>)
        ELSE FitRow(<<NA, "HP Printer", "N/A", " ">>)]

TallSheets == {TallSheet(n) : n \in SEARCH_CAP..(SEARCH_CAP + 2)}

\* Rows that hold one note in the first column, then a header row and a
\* data row: the header row lies at index n, inside or just past the window
\* of HEAD_WINDOW rows.
DeepSheet(n) ==
    [i \in 1..(n + 2) |->
        IF i <= n THEN FitRow(<<"Note">>)
        ELSE IF i = n + 1 THEN FitRow(<<"S/N", "Description", "Qty", "Price">>)
        ELSE FitRow(<<"1", "Laptop", "2", "500">>)]

DeepSheets == {DeepSheet(n) : n \in (HEAD_WINDOW - 1)..HEAD_WINDOW}

\* Sheets of n columns around the display cap: a row of labels and a row
\* of numbers.
WideSheet(n) ==
    << [j \in 1..n |-> "c" \o IntStr(j)], [j \in 1..n |-> IntStr(j)] >>

\* A sheet past both display caps.
WideTallSheet ==
    [i \in 1..(VIEW_ROWS + 1) |->
        IF i = 1 THEN [j \in 1..(VIEW_COLS + 1) |-> "c" \o IntStr(j)]
        ELSE [j \in 1..(VIEW_COLS + 1) |-> IntStr(j)]]

WideSheets == {WideSheet(n) : n \in (VIEW_COLS - 1)..(VIEW_COLS + 1)} \cup {WideTallSheet}

\* A row of seven cells with three distinct values, under half as many
\* distinct values as cells, above a row of four distinct values.
RepetitiveSheet ==
    << <<"A", "A", "A", "B", "B", "C", "C">>,
       <<"1", "Laptop", "2", "500", NA, NA, NA>> >>

\* HEAD_WINDOW rows that hold one note in the last column, above a row of
\* data: after the forward fill the note rows hold one value each.
SparseTopSheet ==
    [i \in 1..(HEAD_WINDOW + 1) |->
        IF i <= HEAD_WINDOW THEN [j \in 1..MaxCols |-> IF j = MaxCols THEN "Note" ELSE NA]
        ELSE FitRow(<<"1", "Laptop", "2", "500">>)]

\* Sheets whose first row names an annexure, with one value or with four,
\* above a row that asks a question.
AnnexureNoteSheet ==
    << FitRow(<<"Annexure A">>),
       FitRow(<<"Does the firm comply", "Yes">>) >>

AnnexureTableSheet ==
    << FitRow(<<"Annexure A", "Assessment Criteria", "Score", "Points">>),
       FitRow(<<"Section 1", "General", "10", "5">>),
       FitRow(<<"Does the firm comply", "Yes", "10", "5">>) >>

AssessmentSheets == {AnnexureNoteSheet, AnnexureTableSheet}

\* A title in the first column above a header row that starts in the
\* second column.
TitledSheet ==
    << FitRow(<<"Title">>), FitRow(<<NA, "Date", "Price">>) >>

OneSheet(ws) == [state |-> "ok", sheets |-> <<[name |-> "Sheet1", ws |-> ws]>>]

TwoSheets(first, second) ==
    [state |-> "ok",
     sheets |-> <<[name |-> "Sheet1", ws |-> first], [name |-> "Data", ws |-> second]>>]

SheetPool ==
    {<<FitRow(<<"S/N", "Description", "Qty", "Price">>), FitRow(<<"1", "Laptop", "2", "500">>)>>,
     <<FitRow(<<"Form", "Form", "Form", "Form", "Form", "Form">>)>>,
     <<FitRow(<<NA, "HP Printer", "N/A", " ">>), FitRow(<<"1", "Laptop", "2", "500">>)>>}

TwoSheetWorkbooks == {TwoSheets(first, second) : first \in SheetPool, second \in SheetPool}

\* An uploaded file that openpyxl cannot read.
CorruptWorkbook == [state |-> "corrupt", sheets |-> <<>>]

Workbooks ==
    {OneSheet(ws) : ws \in SmallSheets \cup TallSheets \cup DeepSheets \cup WideSheets
                                   \cup {RepetitiveSheet, SparseTopSheet, TitledSheet}
                                   \cup AssessmentSheets}
    \cup {CorruptWorkbook}

NoFile == [state |-> "absent", sheets |-> <<>>]

\* The sheet parameter of a request: absent, the name of a sheet of the
\* two-sheet workbooks, and a name no workbook has.
SheetArgs == {""}

AllSheetArgs == {"", "Data", "Missing"}

Queries == {"", "lap", "LAP", "l.p", "."}

ColumnArgs == {"", "Device_Type", "Price", "Qty"}

NoResponse == [op |-> "none"]

(***************************************************************************)
(* The workbook view_spreadsheet writes in place of a corrupted file, and  *)
(* the descriptor it stores for it.                                        *)
(***************************************************************************)
COLUMN_LETTERS == <<"A", "B", "C", "D", "E", "F", "G", "H", "I", "J">>

RecreatedWorkbook == OneSheet(<<COLUMN_LETTERS>>)

RecreatedRecord(spreadsheet) ==
    [spreadsheet EXCEPT
        !.row_count = Len(COLUMN_LETTERS),
        !.columns_info = [columns |-> COLUMN_LETTERS,
                          total_rows |-> Len(COLUMN_LETTERS),
                          sheets |-> <<"Sheet1">>]]

\* How far the recovery gets: wb.save raises; db.session.commit raises;
\* the second load_workbook raises; or the workbook is loaded.
RecoveryOutcomes == {"save failed", "commit failed", "reload failed", "recreated"}

(***************************************************************************)
(* Authentication: the login rate limiter, the session and login_required. *)
(***************************************************************************)
MAX_LOGIN_ATTEMPTS == 5

LOGIN_TIMEOUT == 300

AVENCION_USERNAME == "Avencion"

\* hashlib.sha256(...).hexdigest(): distinct texts have distinct digests.
sha256(text) == "sha256:" \o text

AVENCION_PASSWORD_HASH == sha256("AvencionData@Center2025")

\* request.remote_addr is None when the server passes no REMOTE_ADDR.
NoAddr == "<no address>"

\* The addresses login requests come from, and those of all requests.
LoginAddrs == {"10.0.0.1", NoAddr}

RemoteAddrs == LoginAddrs \cup {"10.0.0.2"}

\* request.form.get('password') is None when the field is not posted.
NoPassword == "<no password>"

Usernames == {AVENCION_USERNAME, "guest"}

Passwords == {"AvencionData@Center2025", "wrong", NoPassword}

\* The clock advances in steps of half the timeout.
ClockStep == LOGIN_TIMEOUT \div 2

\* A session is the function from the keys it holds to their values.
EmptySession == [k \in {} |-> ""]

\* The cookie app_simple_working.py issues under the same SECRET_KEY.
PartialSession == [authenticated |-> TRUE, username |-> AVENCION_USERNAME]

NewSession(username, current_time, client_ip) ==
    [authenticated |-> TRUE,
     username |-> username,
     login_time |-> current_time,
     session_id |-> "token",
     ip_address |-> client_ip]

\* session.get(key) is truthy.
SessionHas(s, key) ==
    /\ key \in DOMAIN s
    /\ s[key] # (IF key = "authenticated" THEN FALSE
                 ELSE IF key = "login_time" THEN -1
                 ELSE IF key = "ip_address" THEN NoAddr
                 ELSE "")

login_required_NoAddressCheck(s, remote_addr) ==
    IF ~SessionHas(s, "authenticated")
    THEN [run |-> FALSE, session |-> s]
    ELSE IF ~SessionHas(s, "session_id") \/ ~SessionHas(s, "username")
    THEN [run |-> FALSE, session |-> EmptySession]
    ELSE [run |-> TRUE, session |-> s]

\* Whether the wrapped handler runs, and the session the request leaves.
login_required(s, remote_addr) ==
    IF ~SessionHas(s, "authenticated")
    THEN [run |-> FALSE, session |-> s]
    ELSE IF ~SessionHas(s, "session_id") \/ ~SessionHas(s, "username")
    THEN [run |-> FALSE, session |-> EmptySession]
    ELSE IF SessionHas(s, "ip_address") /\ s.ip_address # remote_addr
    THEN [run |-> FALSE, session |-> EmptySession]
    ELSE [run |-> TRUE, session |-> s]

CleanOldAttempts(attempts, current_time) ==
    SelectSeq(attempts, LAMBDA attempt : current_time - attempt < LOGIN_TIMEOUT)

TooManyAttempts_Over(attempts) == Len(attempts) > MAX_LOGIN_ATTEMPTS

TooManyAttempts(attempts) == Len(attempts) >= MAX_LOGIN_ATTEMPTS

\* password.encode() raises on a missing password; the username is
\* compared first.
VerifyCredentials(username, password) ==
    IF username # AVENCION_USERNAME THEN "invalid"
    ELSE IF password = NoPassword THEN "error"
    ELSE IF sha256(password) = AVENCION_PASSWORD_HASH THEN "welcome"
    ELSE "invalid"

\* The client the spreadsheet requests come from, logged in.
ClientAddr == "10.0.0.1"

ClientSession == NewSession(AVENCION_USERNAME, 0, ClientAddr)

NoAttempts == [ip \in LoginAddrs |-> <<>>]

(***************************************************************************)
(* The application: one spreadsheet record, its file, and the response to  *)
(* the request being served.  Requests are served one at a time.           *)
(***************************************************************************)
Init ==
    /\ file = NoFile
    /\ record = [stored |-> FALSE]
    /\ resp = NoResponse
    /\ io = <<>>
    /\ login_attempts = NoAttempts
    /\ session = ClientSession
    /\ now = 0

Upload(workbooks) ==
    /\ resp = NoResponse
    /\ login_required(session, ClientAddr).run
    /\ UNCHANGED <<login_attempts, session, now>>
    /\ ~record.stored
    /\ \E wb \in workbooks : \E analysis \in {analyze_excel_file(wb)} :
            /\ file' = analyzed_file(wb)
            /\ record' = [stored |-> TRUE,
                          sheet_names |-> analysis.columns_info.sheets,
                          columns_info |-> analysis.columns_info,
                          row_count |-> analysis.row_count]
            /\ resp' = [op |-> "upload",
                        status |-> IF load_workbook(wb) THEN "ok" ELSE "degraded",
                        upload |-> wb,
                        columns_info |-> analysis.columns_info,
                        row_count |-> analysis.row_count,
                        table |-> analysis.table]
            /\ io' = IF load_workbook(wb) THEN <<"save", "load", "load">>
                     ELSE <<"save", "load">>

View(sheet_args) ==
    /\ resp = NoResponse
    /\ login_required(session, ClientAddr).run
    /\ UNCHANGED <<login_attempts, session, now>>
    /\ record.stored
    /\ \E sheet_name \in sheet_args :
        \/ /\ load_workbook(file)
           /\ resp' = ViewResponse(file, sheet_name)
           /\ io' = <<"load">>
           /\ UNCHANGED <<file, record>>
        \/ /\ ~load_workbook(file)
           /\ \E outcome \in RecoveryOutcomes :
                /\ file' = IF outcome = "save failed" THEN file ELSE RecreatedWorkbook
                /\ record' = IF outcome \in {"save failed", "commit failed"} THEN record
                             ELSE RecreatedRecord(record)
                /\ resp' = IF outcome = "recreated"
                           THEN ViewResponse(RecreatedWorkbook, sheet_name)
                           ELSE ViewError
                /\ io' = IF outcome \in {"save failed", "commit failed"}
                         THEN <<"load", "save">>
                         ELSE <<"load", "save", "load">>

SearchIO_LoadFirst(query) == <<"load">>

SearchIO(query) == IF query = "" THEN <<>> ELSE <<"load">>

Search(sheet_args) ==
    /\ resp = NoResponse
    /\ login_required(session, ClientAddr).run
    /\ UNCHANGED <<login_attempts, session, now>>
    /\ record.stored
    /\ \/ /\ \E column \in ColumnArgs, sheet_name \in sheet_args :
                resp' = EmptyResult("", column, sheet_name)
          /\ io' = SearchIO("")
       \/ /\ ~load_workbook(file)
          /\ \E query \in Queries \ {""}, column \in ColumnArgs, sheet_name \in sheet_args :
                /\ resp' = SearchError(query, column, sheet_name)
                /\ io' = SearchIO(query)
       \/ /\ load_workbook(file)
          /\ \E sheet_name \in sheet_args :
             \E frame \in {SearchFrame(Worksheet(file, SelectSheet(file, sheet_name)))} :
             \E query \in Queries \ {""}, column \in ColumnArgs :
                /\ resp' = SearchResponse(frame, query, column, sheet_name,
                                          SelectSheet(file, sheet_name))
                /\ io' = SearchIO(query)
    /\ UNCHANGED <<file, record>>

upload_spreadsheet == Upload(Workbooks)

view_spreadsheet == View(SheetArgs)

search_spreadsheet == Search(SheetArgs)

Respond ==
    /\ resp # NoResponse
    /\ resp' = NoResponse
    /\ io' = <<>>
    /\ UNCHANGED <<file, record, login_attempts, session, now>>

(***************************************************************************)
(* infer_column_names as a function of a labelled table: the frames        *)
(* explored have up to MaxInferCols columns, each a header label with the  *)
(* SAMPLE_SIZE + 1 values below it.                                        *)
(***************************************************************************)
ColumnPool ==
    {[label |-> "Unnamed: 2", values |-> <<"HP", "Dell", "Lenovo", "Dell", "Asus", "Laptop">>],
     [label |-> "3", values |-> <<"alpha", "beta", "gamma", NA, NA, NA>>],
     [label |-> "", values |-> <<"Yes", "No", "Yes", NA, NA, NA>>],
     [label |-> NA, values |-> <<"Y", "N", NA, "Y", NA, NA>>],
     [label |-> " Qty ", values |-> <<"1", "2.5", "-3", "x", "7", "8">>],
     [label |-> "nan", values |-> <<"HP Laptop", "10", "20", "30", NA, "40">>]}

LabelledFrame(columns) ==
    [cols |-> [j \in 1..Len(columns) |-> columns[j].label],
     rows |-> [i \in 1..(SAMPLE_SIZE + 1) |->
                [j \in 1..Len(columns) |-> columns[j].values[i]]]]

InferInputs ==
    {LabelledFrame(columns) : columns \in UNION {[1..n -> ColumnPool] : n \in 1..MaxInferCols}}

InitInfer ==
    /\ file = NoFile
    /\ record = [stored |-> FALSE]
    /\ resp \in {[op |-> "call", df |-> df] : df \in InferInputs}
    /\ io = <<>>
    /\ login_attempts = NoAttempts
    /\ session = EmptySession
    /\ now = 0

infer_call ==
    /\ resp.op = "call"
    /\ resp' = [op |-> "infer", df |-> resp.df, names |-> infer_column_names(resp.df)]
    /\ UNCHANGED <<file, record, io, login_attempts, session, now>>

NextInfer == infer_call

SpecInfer == InitInfer /\ [][NextInfer]_vars

(***************************************************************************)
(* The forward fill of merged cells, applied to grids in which every cell  *)
(* is missing or holds a value naming its own position.                    *)
(***************************************************************************)
GridCell(i, j) == "r" \o IntStr(i) \o "c" \o IntStr(j)

Grid(n, m, missing) ==
    [i \in 1..n |-> [j \in 1..m |-> IF <<i, j>> \in missing THEN NA ELSE GridCell(i, j)]]

InitRepair ==
    /\ file = NoFile
    /\ record = [stored |-> FALSE]
    /\ \E n \in 1..MaxGridRows, m \in 1..MaxGridCols :
          \E missing \in SUBSET ((1..n) \X (1..m)) :
              resp = [op |-> "call", df |-> DataFrame(Grid(n, m, missing))]
    /\ io = <<>>
    /\ login_attempts = NoAttempts
    /\ session = EmptySession
    /\ now = 0

repair_call ==
    /\ resp.op = "call"
    /\ resp' = [op |-> "repair", df |-> resp.df, out |-> ffill_merged_cells(resp.df)]
    /\ UNCHANGED <<file, record, io, login_attempts, session, now>>

NextRepair == repair_call

SpecRepair == InitRepair /\ [][NextRepair]_vars

(***************************************************************************)
(* Logging in and out and asking for a protected page, one request at a    *)
(* time, from any address, while the clock advances up to MaxTicks steps.  *)
(***************************************************************************)
InitAuth ==
    /\ file = NoFile
    /\ record = [stored |-> FALSE]
    /\ resp = NoResponse
    /\ io = <<>>
    /\ login_attempts = NoAttempts
    /\ session \in {EmptySession, PartialSession}
    /\ now = 0

LoginResponse(method, client_ip, username, password, status) ==
    [op |-> "login", method |-> method, remote_addr |-> client_ip,
     username |-> username, password |-> password, status |-> status]

login ==
    /\ resp = NoResponse
    /\ \E method \in {"GET", "POST"}, client_ip \in LoginAddrs,
          username \in Usernames, password \in Passwords :
       \E cleaned \in {CleanOldAttempts(login_attempts[client_ip], now)} :
       \E verdict \in {VerifyCredentials(username, password)} :
          IF method = "GET"
          THEN /\ resp' = LoginResponse(method, client_ip, username, password, "form")
               /\ UNCHANGED <<login_attempts, session>>
          ELSE IF TooManyAttempts(cleaned)
          THEN /\ login_attempts' = [login_attempts EXCEPT ![client_ip] = cleaned]
               /\ resp' = LoginResponse(method, client_ip, username, password, "rejected")
               /\ UNCHANGED session
          ELSE /\ login_attempts' =
                    [login_attempts EXCEPT ![client_ip] =
                        IF verdict = "welcome" THEN <<>>
                        ELSE IF verdict = "invalid" THEN Append(cleaned, now)
                        ELSE cleaned]
               /\ session' = IF verdict = "welcome"
                             THEN NewSession(username, now, client_ip)
                             ELSE session
               /\ resp' = LoginResponse(method, client_ip, username, password, verdict)
    /\ UNCHANGED <<file, record, io, now>>

logout ==
    /\ resp = NoResponse
    /\ session' = EmptySession
    /\ resp' = [op |-> "logout", status |-> "redirect"]
    /\ UNCHANGED <<file, record, io, login_attempts, now>>

help_page ==
    /\ resp = NoResponse
    /\ \E remote_addr \in RemoteAddrs :
       \E guard \in {login_required(session, remote_addr)} :
          /\ session' = guard.session
          /\ resp' = [op |-> "help", remote_addr |-> remote_addr,
                      status |-> IF guard.run THEN "rendered" ELSE "redirect",
                      cookie |-> IF guard.session = session THEN "kept"
                                 ELSE "cleared"]
    /\ UNCHANGED <<file, record, io, login_attempts, now>>

Tick ==
    /\ resp = NoResponse
    /\ now < MaxTicks * ClockStep
    /\ now' = now + ClockStep
    /\ UNCHANGED <<file, record, resp, io, login_attempts, session>>

NextAuth == login \/ logout \/ help_page \/ Tick \/ Respond

SpecAuth == InitAuth /\ [][NextAuth]_vars

Next ==
    \/ upload_spreadsheet
    \/ view_spreadsheet
    \/ search_spreadsheet
    \/ Respond

Spec == Init /\ [][Next]_vars

(***************************************************************************)
(* The same handlers over workbooks of two sheets and every value of the   *)
(* sheet parameter.                                                        *)
(***************************************************************************)
upload_two_sheets == Upload(TwoSheetWorkbooks)

view_sheet == View(AllSheetArgs)

search_sheet == Search(AllSheetArgs)

NextSheets ==
    \/ upload_two_sheets
    \/ view_sheet
    \/ search_sheet
    \/ Respond

SpecSheets == Init /\ [][NextSheets]_vars

(***************************************************************************)
(* What the properties below read off a state: the sheet a response was    *)
(* computed from, its retained rows, the grid the header detector          *)
(* scanned, the header row it selected and the cleaned table.              *)
(***************************************************************************)
Detected ==
    \/ resp.op = "upload" /\ resp.status = "ok"
    \/ resp.op = "view" /\ resp.status \in {"ok", "no data"}

HasTable ==
    \/ Detected
    \/ resp.op = "search" /\ resp.status = "ok"

UsedSheet ==
    Worksheet(file, IF resp.op = "view" THEN resp.current_sheet
                    ELSE IF resp.op = "search" THEN resp.sheet
                    ELSE sheetnames(file)[1])

RetainedRows == ReadRows(UsedSheet, 1, Len(UsedSheet))

DetectionRows ==
    IF resp.op = "view" THEN RetainedRows
    ELSE ffill_axis0(ffill_axis1(DataFrame(
            ReadRows(UsedSheet, 1, Min(IF resp.op = "upload" THEN 100 ELSE 50,
                                       Len(UsedSheet)))))).rows

WindowRows == head(DetectionRows, 10)

HeaderRowOf ==
    IF resp.op = "upload" THEN resp.columns_info.header_row ELSE resp.header_row

EmptyCell(c) == c = NA \/ c = ""

SatisfiesKeywordRule(row) ==
    /\ Len(RowValues(row)) > 2
    /\ AnyKeyword(HEADER_KEYWORDS, Lower(Join(RowValues(row))))
    /\ Cardinality(Range(RowValues(row))) > 2

SatisfiesVarietyRule(row) ==
    /\ Len(NotNull(row)) >= 3
    /\ Cardinality(Range(RowValues(row))) > 2
    /\ 2 * Cardinality(Range(RowValues(row))) >= Len(NotNull(row))

KeywordRows ==
    UNION {{i \in 1..Len(w) : SatisfiesKeywordRule(w[i])} : w \in {WindowRows}}

(***************************************************************************)
(* C1.  No retained row and no retained column of a cleaned table          *)
(* (analysis, view, search) is entirely empty, where empty means missing   *)
(* or the empty string after null-token normalization.                     *)
(***************************************************************************)
C1_NoEmptyRowOrColumn ==
    HasTable =>
        /\ \A i \in 1..NRows(resp.table) :
              \E j \in 1..NCols(resp.table) : ~EmptyCell(resp.table.rows[i][j])
        /\ NRows(resp.table) > 0 =>
              \A j \in 1..NCols(resp.table) :
                  \E i \in 1..NRows(resp.table) : ~EmptyCell(resp.table.rows[i][j])

(***************************************************************************)
(* C2.  In analysis and view, when some row of the first 10 rows scanned   *)
(* satisfies the keyword rule, header_row is the first such row, also      *)
(* when an earlier row satisfies the variety heuristic.                    *)
(***************************************************************************)
C2_KeywordRowWins ==
    Detected =>
        \A rows \in {KeywordRows} :
            rows # {} => HeaderRowOf = SetMin(rows) - 1

C2_Witness ==
    /\ Detected
    /\ KeywordRows # {}
    /\ \E i \in 1..(SetMin(KeywordRows) - 1) : SatisfiesVarietyRule(WindowRows[i])
    /\ HeaderRowOf = SetMin(KeywordRows) - 1

(***************************************************************************)
(* C3.  A row with at most 2 distinct values is the header row only when   *)
(* no row of the window satisfies the keyword rule or the variety rule;    *)
(* when row 0 is six cells "Form" and row 1 satisfies the keyword rule,    *)
(* analysis returns header_row = 1.                                        *)
(***************************************************************************)
FormThenHeader ==
    /\ Len(UsedSheet) >= 2
    /\ UsedSheet[1] = FitRow(<<"Form", "Form", "Form", "Form", "Form", "Form">>)
    /\ SatisfiesKeywordRule(UsedSheet[2])

C3_RepeatedLabelIsNoHeader ==
    Detected =>
        \A scanned \in {DetectionRows} :
            Len(scanned) > 0 =>
                /\ Cardinality(Range(RowValues(scanned[HeaderRowOf + 1]))) <= 2 =>
                      \A i \in 1..Min(10, Len(scanned)) :
                          /\ ~SatisfiesKeywordRule(scanned[i])
                          /\ ~SatisfiesVarietyRule(scanned[i])
                /\ resp.op = "upload" /\ FormThenHeader => HeaderRowOf = 1

C3_Witness ==
    /\ resp.op = "upload"
    /\ resp.status = "ok"
    /\ FormThenHeader
    /\ HeaderRowOf = 1

(***************************************************************************)
(* C4.  In analysis and view there is one column per label of the          *)
(* detected header row, and a column whose header label is non-degenerate  *)
(* is named by that label, trimmed.                                        *)
(***************************************************************************)
C4_HeaderLabelsNameColumns ==
    Detected /\ Len(RetainedRows) > 0 =>
        LET labels == NotNull(RetainedRows[HeaderRowOf + 1])
        IN  /\ NCols(resp.table) = Len(labels)
            /\ \A k \in 1..Len(labels) :
                  ~IsDegenerate(labels[k]) =>
                      /\ k <= NCols(resp.table)
                      /\ resp.table.cols[k] = Strip(labels[k])

(***************************************************************************)
(* C5.  The records of the cleaned table come only from the retained rows  *)
(* strictly after the detected header row: the header row is not counted   *)
(* as a data record.                                                       *)
(***************************************************************************)
C5_HeaderRowIsNoRecord ==
    HasTable /\ Len(RetainedRows) > 0 =>
        NRows(resp.table) <= Len(RetainedRows) - (HeaderRowOf + 1)

CategoryOrder ==
    <<"Device_Type", "Manufacturer", "Serial_Number", "Price", "Date",
      "Quantity", "Location", "Condition", "Description", "Name", "ID",
      "Assessment_Criteria", "Score", "Response", "Document_Section",
      "Business_Info", "Email", "Phone", "Address", "Customer", "Employee",
      "Category", "Model">>

SampleOf(j) ==
    SubSeq(NotNull(ColumnValues(resp.df, j)), 1,
           Min(5, Len(NotNull(ColumnValues(resp.df, j)))))

SampleText(j) == Lower(Join(SampleOf(j)))

MatchingCategories(text) ==
    {c \in 1..Len(CATEGORIES) : AnyKeyword(CATEGORIES[c].kws, text)}

C7_FirstCategoryWins ==
    resp.op = "infer" =>
        \A j \in 1..NCols(resp.df) :
            /\ IsDegenerate(resp.df.cols[j]) =>
                  \A M \in {MatchingCategories(SampleText(j))} :
                      M # {} => resp.names[j] = CategoryOrder[SetMin(M)]
            /\ /\ resp.df.cols[j] = "Unnamed: 2"
               /\ SampleOf(j) = <<"HP", "Dell", "Lenovo", "Dell", "Asus">>
               => resp.names[j] = "Manufacturer"

C7_Witness ==
    /\ resp.op = "infer"
    /\ \E j \in 1..NCols(resp.df) :
          /\ IsDegenerate(resp.df.cols[j])
          /\ \E M \in {MatchingCategories(SampleText(j))} :
                /\ Cardinality(M) >= 2
                /\ resp.names[j] = CategoryOrder[SetMin(M)]
    /\ \E j \in 1..NCols(resp.df) :
          /\ resp.df.cols[j] = "Unnamed: 2"
          /\ SampleOf(j) = <<"HP", "Dell", "Lenovo", "Dell", "Asus">>
          /\ resp.names[j] = "Manufacturer"

(***************************************************************************)
(* C8.  On an assessment sheet of 4 columns with numeric or blank          *)
(* headers, the first three matching no category and the fourth holding    *)
(* Yes, No, Yes, the names are Assessment_Criteria, Description,           *)
(* Score_Yes_No, Response_1; a column in 4th or later position whose       *)
(* sampled values are boolean-like is named Response_N.                    *)
(***************************************************************************)
NumericOrBlank(col) == col # NA /\ (IsDigit(Strip(col)) \/ Strip(col) = "")

BooleanLike(j) ==
    /\ Len(SampleOf(j)) > 0
    /\ \A k \in 1..Len(SampleOf(j)) :
          Lower(SampleOf(j)[k]) \in {"yes", "no", "y", "n", "1", "0"}

C8_AssessmentNames ==
    resp.op = "infer" /\ is_assessment(resp.df) =>
        /\ /\ NCols(resp.df) = 4
           /\ \A j \in 1..4 : NumericOrBlank(resp.df.cols[j])
           /\ \A j \in 1..3 : Len(SampleOf(j)) > 0 /\ MatchingCategories(SampleText(j)) = {}
           /\ SampleOf(4) = <<"Yes", "No", "Yes">>
           => resp.names = <<"Assessment_Criteria", "Description", "Score_Yes_No", "Response_1">>
        /\ \A j \in 4..NCols(resp.df) :
              IsDegenerate(resp.df.cols[j]) /\ BooleanLike(j) =>
                  resp.names[j] = "Response_" \o IntStr(j - 3)

(***************************************************************************)
(* C9.  A row matches a search exactly when the query, as literal text     *)
(* and without regard to case, is a substring of its cell in the filter    *)
(* column when the filter names a column, and of some cell of the row      *)
(* otherwise.                                                              *)
(***************************************************************************)
LiteralMatch(text, query) == Contains(Lower(text), Lower(query))

C9_LiteralSubstringMatch ==
    resp.op = "search" /\ resp.status = "ok" =>
        resp.mask =
            {i \in 1..NRows(resp.table) :
                IF resp.column # "" /\ resp.column \in Range(resp.table.cols)
                THEN \E j \in 1..NCols(resp.table) :
                        /\ resp.table.cols[j] = resp.column
                        /\ LiteralMatch(resp.table.rows[i][j], resp.query)
                ELSE \E j \in 1..NCols(resp.table) :
                        LiteralMatch(resp.table.rows[i][j], resp.query)}

(***************************************************************************)
(* C10.  A successful search reports as total the number of all matching   *)
(* rows and returns as data the first min(100, total) of them in table     *)
(* order.                                                                  *)
(***************************************************************************)
RankIn(S, i) == Cardinality({m \in S : m <= i})

C10_TotalIsFullCount ==
    resp.op = "search" /\ resp.status = "ok" =>
        /\ resp.total = Cardinality(resp.mask)
        /\ Len(resp.data) = Min(100, resp.total)
        /\ \A i \in resp.mask :
              RankIn(resp.mask, i) <= 100 =>
                  resp.data[RankIn(resp.mask, i)] = to_dict(resp.table.cols, resp.table.rows[i])

C10_Witness ==
    /\ resp.op = "search"
    /\ resp.status = "ok"
    /\ resp.total > 100
    /\ Len(resp.data) = 100

(***************************************************************************)
(* C11.  A search request with an empty query returns data = [] and        *)
(* total = 0 without opening or reading the workbook file and without      *)
(* changing the file or the stored record, whatever the column and sheet   *)
(* parameters are.                                                         *)
(***************************************************************************)
C11_EmptyQueryTouchesNothing ==
    [][resp'.op = "search" /\ resp'.query = "" =>
            /\ resp'.data = <<>>
            /\ resp'.total = 0
            /\ io' = <<>>
            /\ file' = file
            /\ record' = record]_vars

C11_Witness ==
    /\ resp.op = "search"
    /\ resp.query = ""
    /\ resp.column = "Price"
    /\ resp.data = <<>>
    /\ resp.sheet_arg = "Missing"
    /\ resp.total = 0
    /\ io = <<>>
    /\ record.stored

(***************************************************************************)
(* C12.  For every non-empty cleaned table rendered by view_spreadsheet,   *)
(* displayed_rows = min(50, total_rows), displayed_columns =                *)
(* min(20, total_columns), columns_truncated holds exactly when            *)
(* total_columns > 20, and total_rows and total_columns are the sizes of   *)
(* the full cleaned table; the rendered table has the displayed sizes.     *)
(***************************************************************************)
C12_DisplayCaps ==
    resp.op = "view" /\ resp.status = "ok" =>
        /\ resp.total_rows = NRows(resp.table)
        /\ resp.total_columns = NCols(resp.table)
        /\ resp.displayed_rows = Min(50, resp.total_rows)
        /\ resp.displayed_columns = Min(20, resp.total_columns)
        /\ resp.columns_truncated <=> resp.total_columns > 20
        /\ Len(resp.table_html.body) = resp.displayed_rows
        /\ Len(resp.table_html.header) = resp.displayed_columns

C12_Witness ==
    /\ resp.op = "view"
    /\ resp.status = "ok"
    /\ resp.total_rows > 50
    /\ resp.displayed_rows = 50
    /\ resp.total_columns > 20
    /\ resp.displayed_columns = 20
    /\ resp.columns_truncated

(***************************************************************************)
(* C13.  When the analysis of an upload fails, analyze_excel_file returns  *)
(* a descriptor that carries every field of the descriptor shape           *)
(* (columns, dtypes, sample_data, total_rows, sheets, header_row) with     *)
(* columns = ['Error reading file'] and total_rows = 0, and a row count    *)
(* of 0.                                                                   *)
(***************************************************************************)
DescriptorFields ==
    {"columns", "dtypes", "sample_data", "total_rows", "sheets", "header_row"}

C13_DegradedDescriptor ==
    resp.op = "upload" /\ ~load_workbook(resp.upload) =>
        /\ DescriptorFields \subseteq DOMAIN resp.columns_info
        /\ resp.columns_info.columns = <<"Error reading file">>
        /\ resp.columns_info.total_rows = 0
        /\ resp.row_count = 0

(***************************************************************************)
(* C14.  When the first load of the workbook fails in view_spreadsheet,    *)
(* one recovery is attempted (the workbook is re-created at the same       *)
(* path, then loaded once more); when the re-creation or the second load   *)
(* fails, the request ends with an error and the stored descriptor         *)
(* (columns_info and row_count of the record) is as before the request.    *)
(***************************************************************************)
C14_FailedRecoveryKeepsDescriptor ==
    [][resp'.op = "view" /\ ~load_workbook(file) =>
            /\ io' \in {<<"load", "save">>, <<"load", "save", "load">>}
            /\ resp'.status = "error" =>
                  /\ record'.columns_info = record.columns_info
                  /\ record'.row_count = record.row_count]_vars

(***************************************************************************)
(* C15.  In view_spreadsheet and search_spreadsheet a requested sheet      *)
(* name that is empty or not among the sheets of the workbook causes no    *)
(* failure: the first sheet is used; and the reported current_sheet or     *)
(* sheet is the name of the sheet whose table the response was computed    *)
(* from.                                                                   *)
(***************************************************************************)
SheetToUse ==
    IF resp.sheet_arg # "" /\ \E k \in 1..Len(file.sheets) : file.sheets[k].name = resp.sheet_arg
    THEN resp.sheet_arg
    ELSE file.sheets[1].name

C15_SheetFallback ==
    /\ resp.op = "view" =>
          /\ resp.status # "error"
          /\ resp.current_sheet = SheetToUse
          /\ resp.table = ViewFrame(Worksheet(file, SheetToUse))
    /\ resp.op = "search" /\ resp.query # "" =>
          \A frame \in {SearchFrame(Worksheet(file, SheetToUse))} :
              IF resp.column # "" /\ Cardinality(Positions(frame.df.cols, resp.column)) > 1
              THEN resp.status = "error"
              ELSE /\ resp.status = "ok"
                   /\ resp.sheet = SheetToUse
                   /\ resp.table = frame.df

C15_Witness ==
    /\ resp.op = "search"
    /\ resp.status = "ok"
    /\ resp.sheet_arg = "Missing"
    /\ Len(file.sheets) = 2
    /\ resp.sheet = "Sheet1"
    /\ resp.total > 0
    /\ SearchFrame(Worksheet(file, "Data")).df # resp.table

C17_HeaderRowInWindow ==
    HasTable => 0 <= HeaderRowOf /\ HeaderRowOf <= HEAD_WINDOW - 1

(***************************************************************************)
(* C18.  In analysis and view, when no row of the window satisfies the     *)
(* keyword rule, header_row is the first row of the window with at least   *)
(* 3 non-null cells, more than 2 distinct stringified values and at least  *)
(* half as many distinct values as non-null cells; when no row satisfies   *)
(* that either, header_row is the first retained row with a non-null       *)
(* cell, which is row 0.                                                   *)
(***************************************************************************)
VarietyRows ==
    UNION {{i \in 1..Len(w) : SatisfiesVarietyRule(w[i])} : w \in {WindowRows}}

C18_VarietyThenFirstRow ==
    Detected =>
        \A w \in {WindowRows} :
            (\A i \in 1..Len(w) : ~SatisfiesKeywordRule(w[i])) =>
                \A varied \in {{i \in 1..Len(w) : SatisfiesVarietyRule(w[i])}} :
                    IF varied # {}
                    THEN HeaderRowOf = SetMin(varied) - 1
                    ELSE /\ HeaderRowOf = 0
                         /\ Len(w) > 0 => Len(NotNull(w[1])) > 0

C18_Witness ==
    /\ Detected
    /\ KeywordRows = {}
    /\ VarietyRows # {}
    /\ \E i \in 1..(SetMin(VarietyRows) - 1) :
          /\ Len(NotNull(WindowRows[i])) >= 3
          /\ Cardinality(Range(RowValues(WindowRows[i]))) > 2
    /\ HeaderRowOf = SetMin(VarietyRows) - 1

C18_FallbackWitness ==
    /\ Detected
    /\ KeywordRows = {}
    /\ VarietyRows = {}
    /\ Len(DetectionRows) > 1
    /\ HeaderRowOf = 0

(***************************************************************************)
(* C19.  Merged-cell repair first fills every empty cell with the nearest  *)
(* non-empty value to its left in its row, and only afterwards fills the   *)
(* cells still empty with the nearest non-empty value above them in their  *)
(* column; after repair a cell is empty only if every cell to its left in  *)
(* its row was empty in the input and every cell above it in its column    *)
(* is empty after the row pass.  Non-empty input cells are never changed.  *)
(***************************************************************************)
RECURSIVE NearestLeft(_, _, _)
NearestLeft(rows, i, j) ==
    IF j = 0 THEN NA
    ELSE IF rows[i][j] # NA THEN rows[i][j]
    ELSE NearestLeft(rows, i, j - 1)

RECURSIVE NearestAbove(_, _, _)
NearestAbove(rows, i, j) ==
    IF i = 0 THEN NA
    ELSE IF rows[i][j] # NA THEN rows[i][j]
    ELSE NearestAbove(rows, i - 1, j)

AfterRowPass(rows) ==
    [i \in 1..Len(rows) |-> [j \in 1..Len(rows[i]) |-> NearestLeft(rows, i, j)]]

C19_RowsThenColumns ==
    resp.op = "repair" =>
        \A mid \in {AfterRowPass(resp.df.rows)} :
            /\ NRows(resp.out) = NRows(resp.df)
            /\ \A i \in 1..NRows(resp.df) :
                  /\ Len(resp.out.rows[i]) = Len(resp.df.rows[i])
                  /\ \A j \in 1..Len(resp.df.rows[i]) :
                        /\ resp.out.rows[i][j] = NearestAbove(mid, i, j)
                        /\ resp.df.rows[i][j] # NA => resp.out.rows[i][j] = resp.df.rows[i][j]
                        /\ resp.out.rows[i][j] = NA =>
                              /\ \A k \in 1..j : resp.df.rows[i][k] = NA
                              /\ \A k \in 1..(i - 1) : mid[k][j] = NA

C19_Witness ==
    /\ resp.op = "repair"
    /\ resp.df.rows = << <<NA, GridCell(1, 2)>>, <<GridCell(2, 1), NA>>, <<NA, NA>> >>
    /\ resp.out.rows = << <<NA, GridCell(1, 2)>>,
                          <<GridCell(2, 1), GridCell(2, 1)>>,
                          <<GridCell(2, 1), GridCell(2, 1)>> >>

(***************************************************************************)
(* C20.  Null-token normalization is the first cleaning step: a cell       *)
(* holding one of the tokens nan, NaN, None, NULL, null, N/A, n/a is       *)
(* treated as an empty cell by the later steps (overwritten by the         *)
(* forward fill, counted as empty in the pruning fill ratios), exactly     *)
(* like a blank cell: the cleaned table of a sheet is the cleaned table    *)
(* of the same sheet with its token cells blank.                           *)
(***************************************************************************)
Blanked(ws) ==
    [i \in 1..Len(ws) |->
        [j \in 1..Len(ws[i]) |->
            IF ws[i][j] \in {"nan", "NaN", "None", "NULL", "null", "N/A", "n/a"}
            THEN NA ELSE ws[i][j]]]

C20_NullTokensAreBlank ==
    Detected =>
        \A blank \in {Blanked(UsedSheet)} :
            resp.table = IF resp.op = "upload" THEN AnalyzeFrame(blank) ELSE ViewFrame(blank)

(***************************************************************************)
(* C21.  Structural pruning in analysis and view runs four steps in this   *)
(* order, each on the output of the previous one: drop the rows with no    *)
(* non-empty cell; drop the columns with no non-empty cell; drop exactly   *)
(* the rows whose count of non-empty cells is below 20% of the remaining   *)
(* column count; drop exactly the columns whose count of non-empty cells   *)
(* is below 10% of the remaining row count.  The surviving rows and        *)
(* columns keep their relative order.                                      *)
(***************************************************************************)
FilledIn(df, i) == {j \in 1..NCols(df) : df.rows[i][j] # NA}

FilledDown(df, j) == {i \in 1..NRows(df) : df.rows[i][j] # NA}

Sub(df, I, J) ==
    [cols |-> SelectIdx(df.cols, J, 1),
     rows |-> [r \in 1..Cardinality(I \cap 1..NRows(df)) |->
                 SelectIdx(SelectIdx(df.rows, I, 1)[r], J, 1)]]

AllCols(df) == 1..NCols(df)

AllRows(df) == 1..NRows(df)

FourSteps(df) ==
    LET s1 == Sub(df, {i \in AllRows(df) : FilledIn(df, i) # {}}, AllCols(df))
        s2 == Sub(s1, AllRows(s1), {j \in AllCols(s1) : FilledDown(s1, j) # {}})
        s3 == Sub(s2, {i \in AllRows(s2) :
                          ~(5 * Cardinality(FilledIn(s2, i)) < NCols(s2))}, AllCols(s2))
    IN  Sub(s3, AllRows(s3),
            {j \in AllCols(s3) : ~(10 * Cardinality(FilledDown(s3, j)) < NRows(s3))})

SecondRead ==
    ReadRows(UsedSheet, HeaderRowOf + 1,
             IF resp.op = "upload" THEN Min(HeaderRowOf + 1000, Len(UsedSheet))
             ELSE Len(UsedSheet))

C21_PruningSteps ==
    Detected =>
        \A pruned \in {FourSteps(ffill_merged_cells(
                            IF resp.op = "upload" THEN Reanchor(DataFrame(SecondRead))
                            ELSE DataFrame(SecondRead)))} :
            NRows(pruned) > 0 =>
                resp.table = clean_dataframe(Rename(
                                IF resp.op = "upload" THEN pruned ELSE Reanchor(pruned)))

C21_Witness ==
    /\ resp.op = "view"
    /\ resp.status = "ok"
    /\ UsedSheet = SparseTopSheet
    /\ NRows(resp.table) = 1
    /\ NCols(resp.table) = Len(UsedSheet[1])

(***************************************************************************)
(* C22.  The assessment re-anchoring check is independent of the           *)
(* repeated-label check: whenever the text of the first retained row       *)
(* contains 'assessment criteria' or 'annexure', whatever the number of    *)
(* values in that row and whether or not the repeated-label check          *)
(* re-sliced the table, the table is re-sliced to start at the first of    *)
(* the next up-to-9 rows that contains a question-like phrase, and is      *)
(* left unchanged if there is none.                                        *)
(***************************************************************************)
IndependentReanchor(df) ==
    IF NRows(df) = 0 THEN df
    ELSE LET values == RowValues(df.rows[1])
             text == Lower(Join(values))
             better == FirstFrom1(df, 5, BetterHeader)
             relabelled == IF /\ Len(values) > 5
                              /\ Cardinality(Range(values)) <= 3
                              /\ better # None
                           THEN iloc_from(df, better) ELSE df
             question == FirstFrom1(relabelled, 10, QuestionRow)
         IN  IF /\ Contains(text, "assessment criteria") \/ Contains(text, "annexure")
                /\ question # None
             THEN iloc_from(relabelled, question)
             ELSE relabelled

C22_AssessmentCheckIsIndependent ==
    Detected =>
        \A data_rows \in {SecondRead} :
            resp.table =
                IF resp.op = "upload"
                THEN clean_dataframe(Rename(
                        Prune(IndependentReanchor(DataFrame(data_rows)), data_rows)))
                ELSE clean_dataframe(Rename(
                        IndependentReanchor(Prune(DataFrame(data_rows), data_rows))))

(***************************************************************************)
(* C23.  On a non-assessment sheet, a degenerate-header column whose       *)
(* sample matches no keyword category is named Numeric_Column_N when at    *)
(* least 70% of its sampled values parse as numeric and Column_N           *)
(* otherwise, where N counts the unresolved columns in scan order: 1 for   *)
(* the first unresolved column, the next integer for each further one,     *)
(* whatever its position among all columns.                                *)
(***************************************************************************)
Unresolved(j) ==
    /\ IsDegenerate(resp.df.cols[j])
    /\ MatchingCategories(SampleText(j)) = {}

UnresolvedRank(j) == Cardinality({k \in 1..j : Unresolved(k)})

MostlyNumeric(j) ==
    10 * Cardinality({k \in 1..Len(SampleOf(j)) : LooksNumeric(SampleOf(j)[k])})
        >= 7 * Len(SampleOf(j))

C23_UnresolvedColumnsAreCounted ==
    resp.op = "infer" /\ ~is_assessment(resp.df) =>
        \A j \in 1..NCols(resp.df) :
            Unresolved(j) /\ Len(SampleOf(j)) > 0 =>
                resp.names[j] =
                    (IF MostlyNumeric(j) THEN "Numeric_Column_" ELSE "Column_")
                        \o IntStr(UnresolvedRank(j))

(***************************************************************************)
(* C24.  For the first sheet of any workbook with at most 100 rows, the    *)
(* upload-time analysis and the view-time derivation produce the same      *)
(* header_row, the same column names and the same total row count.         *)
(***************************************************************************)
C24_ViewAgreesWithAnalysis ==
    /\ resp.op = "view"
    /\ resp.status \in {"ok", "no data"}
    /\ resp.current_sheet = sheetnames(file)[1]
    /\ Len(UsedSheet) <= 100
    => \A analysis \in {analyze_excel_file(file)} :
          /\ resp.header_row = analysis.columns_info.header_row
          /\ resp.table.cols = analysis.columns_info.columns
          /\ resp.total_rows = analysis.columns_info.total_rows
          /\ resp.total_rows = analysis.row_count

(***************************************************************************)
(* C25.  For the same sheet, search_spreadsheet searches the cleaned       *)
(* table that view_spreadsheet displays: both detect the same header row   *)
(* and derive the same column names and the same retained rows, so every   *)
(* column name shown by view is accepted by search as a column filter and  *)
(* every row search returns is a row of the viewed table.                  *)
(***************************************************************************)
C25_SearchAgreesWithView ==
    resp.op = "search" /\ resp.status = "ok" =>
        \A viewed \in {ViewFrame(UsedSheet)} :
            /\ resp.header_row = ViewHeader(UsedSheet)
            /\ resp.table.cols = viewed.cols
            /\ resp.table.rows = viewed.rows
            /\ Range(viewed.cols) \subseteq Range(resp.table.cols)
            /\ \A i \in resp.mask : resp.table.rows[i] \in Range(viewed.rows)

(***************************************************************************)
(* C26.  In analyze_excel_file and view_spreadsheet the second read of     *)
(* the sheet (from sheet row header_row + 1) begins at the row the         *)
(* detector selected: for every sheet, also with fully blank rows before   *)
(* or between the first rows, the first retained row of the re-read grid   *)
(* is the row that had index header_row in the retained grid used for      *)
(* detection.                                                              *)
(***************************************************************************)
C26_SecondReadStartsAtHeader ==
    Detected /\ Len(RetainedRows) > 0 =>
        \A reread \in {SecondRead} :
            /\ Len(reread) > 0
            /\ reread[1] = RetainedRows[HeaderRowOf + 1]

(***************************************************************************)
(* C27.  For any non-empty grid read by analyze_excel_file or              *)
(* view_spreadsheet, the strict pruning pass (20% row / 10% column         *)
(* thresholds, after the two forward fills) retains at least one row,      *)
(* namely the last row; hence the relaxed pass (10% / 5%) runs only when   *)
(* the grid read is empty, and then yields an empty table.                 *)
(***************************************************************************)
StrictKeptRows(df) ==
    LET rows1 == {i \in AllRows(df) : FilledIn(df, i) # {}}
        cols2 == {j \in AllCols(df) : FilledDown(df, j) \cap rows1 # {}}
    IN  {i \in rows1 : ~(5 * Cardinality(FilledIn(df, i) \cap cols2) < Cardinality(cols2))}

C27_StrictPassKeepsLastRow ==
    Detected =>
        \A data_rows \in {SecondRead} :
        \A before \in {IF resp.op = "upload" THEN Reanchor(DataFrame(data_rows))
                        ELSE DataFrame(data_rows)} :
        \A strict \in {StrictPrune(before)} :
            IF Len(data_rows) > 0
            THEN /\ NRows(before) \in StrictKeptRows(ffill_merged_cells(before))
                 /\ NRows(strict) = Cardinality(StrictKeptRows(ffill_merged_cells(before)))
                 /\ NRows(strict) > 0
                 /\ resp.table = clean_dataframe(Rename(
                        IF resp.op = "upload" THEN strict ELSE Reanchor(strict)))
            ELSE NRows(resp.table) = 0 /\ NCols(resp.table) = 0

C27_Witness ==
    /\ resp.op = "upload"
    /\ resp.status = "ok"
    /\ UsedSheet = SparseTopSheet
    /\ Len(SecondRead) = HEAD_WINDOW + 1
    /\ NRows(resp.table) = 1
    /\ resp.table.rows[1][1] = "1"

C27_EmptyGridWitness ==
    /\ Detected
    /\ Len(UsedSheet) > 1
    /\ SecondRead = <<>>
    /\ NRows(resp.table) = 0

\* The recorded attempts of an address that are younger than LOGIN_TIMEOUT.
YoungAttempts(attempts, current_time) ==
    {i \in 1..Len(attempts) : current_time - attempts[i] < LOGIN_TIMEOUT}

\* A login POST from the address is answered in this step.
LoginPostFrom(ip) ==
    /\ resp = NoResponse
    /\ resp'.op = "login"
    /\ resp'.method = "POST"
    /\ resp'.remote_addr = ip

\* C28: with login requests handled one after another, no address ever has
\* more than MAX_LOGIN_ATTEMPTS recorded attempts younger than
\* LOGIN_TIMEOUT; while it has that many, every login POST from it, the
\* correct credentials and a missing password included, is rejected, leaves
\* the session alone and records nothing; a successful login leaves the
\* address with an empty list.
C28_LoginRateLimit ==
    [][\A ip \in LoginAddrs :
        /\ Cardinality(YoungAttempts(login_attempts'[ip], now')) <= MAX_LOGIN_ATTEMPTS
        /\ (LoginPostFrom(ip)
              /\ Cardinality(YoungAttempts(login_attempts[ip], now)) = MAX_LOGIN_ATTEMPTS)
            => /\ resp'.status = "rejected"
               /\ Len(login_attempts'[ip]) = MAX_LOGIN_ATTEMPTS
               /\ login_attempts'[ip] =
                      SelectSeq(login_attempts[ip],
                                LAMBDA attempt : now - attempt < LOGIN_TIMEOUT)
               /\ session' = session
        /\ (LoginPostFrom(ip) /\ resp'.status = "welcome")
            => /\ login_attempts'[ip] = <<>>
               /\ resp'.username = AVENCION_USERNAME
               /\ sha256(resp'.password) = AVENCION_PASSWORD_HASH
               /\ Cardinality(YoungAttempts(login_attempts[ip], now)) < MAX_LOGIN_ATTEMPTS
      ]_vars

C28_Witness ==
    /\ resp.op = "login"
    /\ resp.status = "rejected"
    /\ resp.username = AVENCION_USERNAME
    /\ sha256(resp.password) = AVENCION_PASSWORD_HASH
    /\ Len(login_attempts[resp.remote_addr]) = MAX_LOGIN_ATTEMPTS
    /\ login_attempts[resp.remote_addr][1] < login_attempts[resp.remote_addr][MAX_LOGIN_ATTEMPTS]

C28_WelcomeWitness ==
    /\ resp.op = "login"
    /\ resp.status = "welcome"
    /\ login_attempts[resp.remote_addr] = <<>>
    /\ \E ip \in LoginAddrs : Len(login_attempts[ip]) = MAX_LOGIN_ATTEMPTS

\* The session holds the key with a value other than the empty one.
Holds(s, key, empty) == key \in DOMAIN s /\ s[key] # empty

\* The state in which a wrapped handler may run for a request from addr:
\* authenticated set, session_id and username non-empty, and no address
\* stored (none, or the None of a login without REMOTE_ADDR) or addr stored.
Admitted(s, addr) ==
    /\ Holds(s, "authenticated", FALSE)
    /\ Holds(s, "session_id", "")
    /\ Holds(s, "username", "")
    /\ \/ ~Holds(s, "ip_address", NoAddr)
       \/ s.ip_address = addr

\* C29: a handler wrapped by login_required runs only for a session with
\* authenticated set, a non-empty session_id and username, and a stored
\* address that is absent or the request's; in every other state the
\* request is redirected and the handler does not run, and the session is
\* cleared when the session_id/username check or the address check fails.
C29_LoginRequiredGuard ==
    [][(resp = NoResponse /\ resp'.op = "help") =>
         IF Admitted(session, resp'.remote_addr)
         THEN resp'.status = "rendered" /\ session' = session
         ELSE /\ resp'.status = "redirect"
              /\ session' = IF Holds(session, "authenticated", FALSE)
                            THEN EmptySession ELSE session
      ]_vars

C29_Witness ==
    /\ resp.op = "help"
    /\ resp.status = "rendered"
    /\ session.ip_address = NoAddr
    /\ resp.remote_addr = "10.0.0.2"

C29_ClearedWitness ==
    /\ resp.op = "help"
    /\ resp.status = "redirect"
    /\ resp.cookie = "cleared"
    /\ session = EmptySession
    /\ now > 0

\* The record is the one the upload stored for the file.
RecordAsUploaded ==
    /\ record.stored
    /\ record.columns_info = analyze_excel_file(file).columns_info
    /\ record.row_count = analyze_excel_file(file).row_count
    /\ record.sheet_names = analyze_excel_file(file).columns_info.sheets

\* C30: a search request, and a view request whose first load of the
\* workbook succeeds, leave the file and the stored record (columns_info,
\* row_count, sheet_names) as they were, for every query, column and sheet
\* parameter, whether the answer is a result or an error.
C30_SearchAndViewOnlyRead ==
    [][(/\ resp = NoResponse
        /\ \/ resp'.op = "search"
           \/ resp'.op = "view" /\ file.state = "ok")
       => /\ file' = file
          /\ record' = record
      ]_vars

C30_Witness ==
    /\ resp.op = "search"
    /\ resp.status = "error"
    /\ file.state = "corrupt"
    /\ RecordAsUploaded

C30_ViewWitness ==
    /\ resp.op = "view"
    /\ resp.status = "ok"
    /\ file.state = "ok"
    /\ file # RecreatedWorkbook
    /\ RecordAsUploaded

====
